---- MODULE Spec2Model ----
(***************************************************************************)
(* Honorably backend: the Express request pipelines of src/backend/*.js    *)
(* and the conversation/message store operations of                        *)
(* src/database-backend.js.                                                *)
(*                                                                         *)
(* A request occupies a slot.  A slot moves through the awaits of its      *)
(* pipeline: every call to an external service (identity provider, store,  *)
(* moderation, completion) is one step, the handler code between two calls *)
(* runs with the call that follows it.  Slots interleave at those steps.   *)
(*                                                                         *)
(* The store's schema (row-level security policies, conversation-limit     *)
(* trigger) is in database_schema.sql, which is not part of the sources;   *)
(* the operators Rls* and TriggerConversationLimit follow spec.md.         *)
(***************************************************************************)
EXTENDS Integers, Sequences, FiniteSets, TLC

\* ---------------------------------------------------------------- bounds
MaxConvId == 4
MaxMsgId == 2
MaxSessionId == 12
MaxTime == 2
MaxUserId == 3
MaxChat == 2

\* ------------------------------------------------------ program constants
MaxConversationsPerUser == 3
MaxMessageLength == 4000
MinTokens == 1
MaxTokens == 1000
DefaultMaxTokens == 150
\* temperatures are counted in tenths: 0.7 is 7, the upper limit 1 is 10
MinTemperature == 0
MaxTemperature == 10
DefaultTemperature == 7

\* ------------------------------------------------------------ input sets
Users == {"alice", "bob"}
NoUser == "nobody"

\* access tokens the identity provider has issued, and one it has not
TokenOf(u) == IF u = "alice" THEN "tok_alice" ELSE "tok_bob"
BadToken == "tok_expired"
TokenUser(t) == IF \E u \in Users : TokenOf(u) = t
                THEN CHOOSE u \in Users : TokenOf(u) = t
                ELSE NoUser

\* the Authorization header of a request: absent, or "<scheme> <token>"
NoHeader == [scheme |-> "", token |-> ""]
\* request body fields; "" is a missing (undefined) or empty field
Titles == {"", "t1", "t2"}
\* request slots: two requests can be in flight together
Reqs == {1, 2}

DbRoutes == {"createConversation", "getUserConversations",
             "updateConversationTitle", "deleteConversation",
             "getConversationMessages", "addMessage"}

\* ----------------------------------------------------- JavaScript values
\* A field of a JSON request body: undefined (absent), a string (a sequence
\* of characters) or a number.
Undefined == [t |-> "undefined", s |-> <<>>, n |-> 0]
Str(chars) == [t |-> "string", s |-> chars, n |-> 0]
Num(k) == [t |-> "number", s |-> <<>>, n |-> k]

\* !v is false
Truthy(v) ==
    CASE v.t = "undefined" -> FALSE
      [] v.t = "string" -> v.s # <<>>
      [] OTHER -> v.n # 0

\* v.length > k: the length of a string; undefined > k is false
LengthOver(v, k) == v.t = "string" /\ Len(v.s) > k

Digits == {"0", "1", "2", "3", "4", "5", "6", "7", "8", "9"}

RECURSIVE DecimalVal(_)
DecimalVal(chars) ==
    \* the digits of a numeric string, as a number
    LET DigitVal(c) ==
            CASE c = "0" -> 0 [] c = "1" -> 1 [] c = "2" -> 2 [] c = "3" -> 3
              [] c = "4" -> 4 [] c = "5" -> 5 [] c = "6" -> 6 [] c = "7" -> 7
              [] c = "8" -> 8 [] OTHER -> 9
    IN
    IF chars = <<>> THEN 0
    ELSE 10 * DecimalVal(SubSeq(chars, 1, Len(chars) - 1))
            + DigitVal(chars[Len(chars)])

\* ToNumber(v) is NaN: a comparison with NaN is false
IsNaN(v) ==
    \/ v.t = "undefined"
    \/ v.t = "string" /\ v.s # <<>> /\ \E i \in 1..Len(v.s) : v.s[i] \notin Digits

ToNumber(v) == IF v.t = "number" THEN v.n ELSE DecimalVal(v.s)

\* v < k and v > k of JavaScript
JsLess(v, k) == ~IsNaN(v) /\ ToNumber(v) < k
JsGreater(v, k) == ~IsNaN(v) /\ ToNumber(v) > k

\* ------------------------------------------------------------ strings
\* str.trim(): without the whitespace before the first and after the last
\* character that is not whitespace
Trim(str) ==
    LET Whitespace == {" ", "\n", "\t"}
    IN
    LET n == Len(str)
        Blank(i) == str[i] \in Whitespace
    IN  IF \A i \in 1..n : Blank(i) THEN <<>>
        ELSE SubSeq(str,
                CHOOSE i \in 1..n :
                    ~Blank(i) /\ \A j \in 1..(i - 1) : Blank(j),
                n + 1 - CHOOSE k \in 1..n :
                    ~Blank(n + 1 - k) /\ \A j \in 1..(k - 1) : Blank(n + 1 - j))

\* the characters of str at the positions in keep, in order
Filter(str, keep) ==
    LET at == [i \in 1..Len(str) |-> <<i, str[i]>>]
        kept == SelectSeq(at, LAMBDA x : x[1] \in keep)
    IN  [j \in 1..Len(kept) |-> kept[j][2]]

\* word is at position p of str, letter case ignored
At(str, p, word) ==
    LET Lower(c) ==
            CASE c = "S" -> "s" [] c = "C" -> "c" [] c = "R" -> "r" [] c = "I" -> "i"
              [] c = "P" -> "p" [] c = "T" -> "t" [] OTHER -> c
    IN
    /\ p + Len(word) - 1 <= Len(str)
    /\ \A k \in 1..Len(word) : Lower(str[p + k - 1]) = word[k]

\* str.replace(/<script\b[^<]*(?:(?!<\/script>)<[^<]*)*<\/script>/gi, ''):
\* a match runs from "<script" at a word boundary to the first "</script>"
\* after it; a position is deleted if it lies in a match.
StripScripts(str) ==
    LET WordChars == {"s", "c", "r", "i", "p", "t", "S", "C", "R", "I", "P", "T",
                      "a", "b", "h", "x", "_"} \cup Digits
    IN
    LET ScriptClose == <<"<", "/", "s", "c", "r", "i", "p", "t", ">">>
    IN
    LET ScriptOpen == <<"<", "s", "c", "r", "i", "p", "t">>
    IN
    LET lts == {p \in 1..Len(str) : str[p] = "<"}
        opens == {p \in lts :
                    /\ At(str, p, ScriptOpen)
                    /\ (p + 7 > Len(str) \/ str[p + 7] \notin WordChars)}
        closes == {c \in lts : At(str, c, ScriptClose)}
        InMatch(i) ==
            \E p \in opens : \E c \in closes :
                /\ p <= i /\ p + 7 <= c /\ i <= c + 8
                /\ \A d \in closes : ~(p + 7 <= d /\ d < c)
    IN  IF opens = {} \/ closes = {} THEN str
        ELSE Filter(str, {i \in 1..Len(str) : ~InMatch(i)})

\* str.replace(/<[^>]*>/g, ''): a match runs from a "<" to the first ">"
\* after it; a position is deleted if it lies in a match.
StripTags(str) ==
    LET opens == {p \in 1..Len(str) : str[p] = "<"}
        closes == IF opens = {} THEN {}
                  ELSE {c \in 1..Len(str) : str[c] = ">"}
        InMatch(i) ==
            \E p \in opens : \E c \in closes :
                /\ p <= i /\ i <= c
                /\ \A d \in closes : ~(p < d /\ d < c)
    IN  IF opens = {} \/ closes = {} THEN str
        ELSE Filter(str, {i \in 1..Len(str) : ~InMatch(i)})

\* mainGpt.js: the sanitizedMessage of a string message
Sanitize(str) == Trim(StripTags(StripScripts(str)))

VARIABLES
    conversations,  \* table conversations: rows [id, user_id, title]
    messages,       \* table messages: rows [id, conversation_id, role, content]
    nextConvId,     \* next generated conversations.id
    nextMsgId,      \* next generated messages.id
    reqs,           \* slot -> the request in it
    now,            \* the server's clock, in ticks
    limiterHits,    \* the hit counts the limiter on /api/ keeps
    publicHits,     \* the hit counts publicRateLimit keeps
    nextSessionId,  \* the next session id the session middleware generates
    accounts,       \* the identity provider's users: [id, email, confirmed]
    nextUserId,     \* next generated user id
    component,      \* the React component the browser shows
    state,          \* the component's state hooks
    rendered,       \* the state its committed render closed over
    calls           \* slot -> the frontend handler call waiting in it

vars == <<conversations, messages, nextConvId, nextMsgId, reqs,
          now, limiterHits, publicHits, nextSessionId,
          accounts, nextUserId,
         component, state, rendered, calls>>

store == <<conversations, messages, nextConvId, nextMsgId>>

limits == <<now, limiterHits, publicHits, nextSessionId>>

identity == <<accounts, nextUserId>>
frontend == <<component, state, rendered, calls>>

\* req.sessionID of a request that carries no session
NoSession == 0

NoKey == [kind |-> "none", id |-> 0, ip |-> "", day |-> 0]

\* A free slot.  Of a request the slot holds: pc, where its pipeline stands;
\* route and hdr (the Authorization header); user, req.user once
\* authenticated; invoked, whether the route handler was entered; the fields
\* of the handler's locals that outlive an await (convId, role, content;
\* message, sanitized, maxTokens, temperature); status and data, the
\* response sent.  Kept beside them for the properties: target, what the
\* conversation named by the request was when the handler first went to
\* the store ("none", "own": the caller's, "foreign"); moderation, how the
\* moderation call ended; err, the code of the error the handler's catch
\* block received; completion, the arguments of the completion call; lost,
\* the messages the request's deleteConversation has deleted; sent, how
\* many responses the request has been sent; nexts, how many times
\* authenticateUser has called next() for it.  lost also holds the users a
\* handleCleanupUnconfirmed has deleted; email and todo are its locals
\* email and unconfirmedUsers (the ids of those still to be deleted).
Idle ==
    \* what a request met at the rate limiters: its address and session id, the
    \* key and the count of the limiter on /api/, those of publicRateLimit, and
    \* the limiter that rejected it
    LET NoLimit == [ip |-> "", sessionID |-> NoSession, key |-> NoKey, count |-> 0,
                    pkey |-> NoKey, pcount |-> 0, by |-> ""]
    IN
    \* no call made to the completion endpoint
    LET NoCall == [called |-> FALSE, model |-> "", system |-> "", user |-> <<>>,
                   max_tokens |-> Undefined, temperature |-> Undefined]
    IN
        [pc |-> "idle", route |-> "", hdr |-> NoHeader, user |-> NoUser,
         convId |-> 0, role |-> "", content |-> "", target |-> "none",
         status |-> 0, data |-> {}, invoked |-> FALSE,
         message |-> Undefined, sanitized |-> <<>>,
         maxTokens |-> Undefined, temperature |-> Undefined,
         moderation |-> "none", err |-> "", completion |-> NoCall,
         limit |-> NoLimit, lost |-> {}, sent |-> 0, nexts |-> 0,
         email |-> <<>>, todo |-> {}]

\* ------------------------------------------------- identity provider
\* supabase.auth.getUser(token): the provider answers with the token's user,
\* answers with an error, or the call throws.  Only a token it issued can be
\* answered with a user.
GetUserOutcomes(token) ==
    {"error", "throw"} \cup (IF TokenUser(token) # NoUser THEN {"user"} ELSE {})

\* !authHeader || !authHeader.startsWith('Bearer ')
HasBearer(hdr) == hdr # NoHeader /\ hdr.scheme = "Bearer"

\* authHeader.substring(7)
BearerToken(hdr) == hdr.token

AuthPasses_mutant(outcome) == outcome # "throw"

\* error || !user, or the catch block: 401; otherwise next()
AuthPasses(outcome) == outcome = "user"

\* ------------------------------------------------------------- the store
AuthenticatedSupabase_mutant(accessToken) ==
    [uid |-> TokenUser(accessToken), rls |-> FALSE]

\* createClient(url, anonKey, {Authorization: Bearer accessToken}): the store
\* evaluates every statement of this client under row-level security as the
\* token's user.
AuthenticatedSupabase(accessToken) ==
    [uid |-> TokenUser(accessToken), rls |-> TRUE]

\* Row-level security, conversations: a user's own rows.
RlsConversation(client, c) == ~client.rls \/ c.user_id = client.uid

\* Row-level security, messages: the rows of the user's own conversations.
RlsMessage(client, m) ==
    ~client.rls \/ \E c \in conversations :
                      c.id = m.conversation_id /\ c.user_id = client.uid

TriggerConversationLimit_mutant(userId) ==
    Cardinality({c \in conversations : c.user_id = userId})
        <= MaxConversationsPerUser

\* The conversation-limit trigger: an insert for a user who already has
\* MaxConversationsPerUser conversations raises an exception.
TriggerConversationLimit(userId) ==
    Cardinality({c \in conversations : c.user_id = userId})
        < MaxConversationsPerUser

\* a store call fails (an error result) or goes through; a table whose
\* generated ids are used up only fails
StoreFails(idsLeft) == IF idsLeft THEN BOOLEAN ELSE {TRUE}

TargetOf(id, userId) ==
    IF \E c \in conversations : c.id = id /\ c.user_id = userId THEN "own"
    ELSE IF \E c \in conversations : c.id = id THEN "foreign"
    ELSE "none"

\* res.status(code).json(...) / res.json(...): the request is answered.
\* What the slot keeps of an answered request: the status and the rows
\* sent; if authenticateUser answered, the header; if the handler answered,
\* the route and, for a deletion, the conversation named and the messages
\* deleted.
Respond(q, code, rows) ==
    [Idle EXCEPT !.pc = "done", !.target = q.target, !.invoked = q.invoked,
                 !.route = IF q.invoked THEN q.route ELSE "",
                 !.hdr = IF q.invoked THEN NoHeader ELSE q.hdr,
                 !.convId = IF q.route = "deleteConversation"
                            THEN q.convId ELSE 0,
                 !.status = code, !.data = rows, !.lost = q.lost,
                 !.sent = q.sent + 1, !.nexts = q.nexts]

\* ------------------------------------------------------- authentication
\* A request arrives on an authenticated route; authenticateUser runs up to
\* its await.
Receive(r, routes) ==
    LET Headers ==
            LET Tokens == {TokenOf(u) : u \in Users} \cup {BadToken}
            IN
                   {NoHeader, [scheme |-> "Basic", token |-> TokenOf("alice")]}
                       \cup [scheme : {"Bearer"}, token : Tokens]
    IN
    /\ reqs[r].pc = "idle"
    /\ \E route \in routes, hdr \in Headers :
         LET q == [Idle EXCEPT !.route = route, !.hdr = hdr] IN
         reqs' = [reqs EXCEPT ![r] =
            IF ~HasBearer(hdr)
            THEN Respond(q, 401, {})
            ELSE [q EXCEPT !.pc = "getUser"]]
    /\ UNCHANGED store
    /\ UNCHANGED limits
    /\ UNCHANGED identity
    /\ UNCHANGED frontend

authenticateUser_mutant(r) ==
    /\ reqs[r].pc = "getUser"
    /\ \E outcome \in GetUserOutcomes(BearerToken(reqs[r].hdr)) :
         reqs' = [reqs EXCEPT ![r] =
            IF AuthPasses(outcome)
            THEN [@ EXCEPT !.pc = "next", !.nexts = @ + 1,
                           !.user = TokenUser(BearerToken(reqs[r].hdr))]
            ELSE [@ EXCEPT !.pc = "next", !.nexts = @ + 1, !.status = 401,
                           !.sent = @ + 1]]
    /\ UNCHANGED store
    /\ UNCHANGED limits
    /\ UNCHANGED identity
    /\ UNCHANGED frontend

\* supabase.auth.getUser returns or throws: 401, or req.user = user; next()
authenticateUser(r) ==
    /\ reqs[r].pc = "getUser"
    /\ \E outcome \in GetUserOutcomes(BearerToken(reqs[r].hdr)) :
         reqs' = [reqs EXCEPT ![r] =
            IF AuthPasses(outcome)
            THEN [@ EXCEPT !.pc = "next", !.nexts = @ + 1,
                           !.user = TokenUser(BearerToken(reqs[r].hdr))]
            ELSE Respond(reqs[r], 401, {})]
    /\ UNCHANGED store
    /\ UNCHANGED limits
    /\ UNCHANGED identity
    /\ UNCHANGED frontend

\* the slot is free again once the response has been sent
Finish(r) ==
    /\ reqs[r].pc = "done"
    /\ reqs' = [reqs EXCEPT ![r] = Idle]
    /\ UNCHANGED store
    /\ UNCHANGED limits
    /\ UNCHANGED identity
    /\ UNCHANGED frontend

\* ------------------------------------------------ conversation handlers
\* the :id a client can name: an id the store has issued, or one it has not
ConvIds == 1..nextConvId

\* the handler is entered (the route's second callback)
Enter(r, route) ==
    /\ reqs[r].pc = "next"
    /\ reqs[r].route = route

Client(r) == AuthenticatedSupabase(BearerToken(reqs[r].hdr))

\* POST /api/conversations
createConversation(r) ==
    /\ Enter(r, "createConversation")
    /\ \E title \in Titles, fails \in StoreFails(nextConvId <= MaxConvId) :
         LET q == [reqs[r] EXCEPT !.invoked = TRUE]
             row == [id |-> nextConvId, user_id |-> q.user, title |-> title]
             inserted == /\ ~fails
                         /\ RlsConversation(Client(r), row)
                         /\ TriggerConversationLimit(row.user_id)
         IN  IF title = ""
             THEN /\ reqs' = [reqs EXCEPT ![r] = Respond(q, 400, {})]
                  /\ UNCHANGED store
             ELSE IF inserted
             THEN /\ conversations' = conversations \cup {row}
                  /\ nextConvId' = nextConvId + 1
                  /\ reqs' = [reqs EXCEPT ![r] = Respond(q, 200, {row})]
                  /\ UNCHANGED <<messages, nextMsgId>>
             ELSE /\ reqs' = [reqs EXCEPT ![r] = Respond(q, 500, {})]
                  /\ UNCHANGED store
    /\ UNCHANGED limits
    /\ UNCHANGED identity
    /\ UNCHANGED frontend

\* GET /api/conversations
getUserConversations(r) ==
    /\ Enter(r, "getUserConversations")
    /\ \E fails \in BOOLEAN :
         LET q == [reqs[r] EXCEPT !.invoked = TRUE]
             rows == {c \in conversations :
                        RlsConversation(Client(r), c) /\ c.user_id = q.user}
         IN  reqs' = [reqs EXCEPT ![r] =
                IF fails THEN Respond(q, 500, {}) ELSE Respond(q, 200, rows)]
    /\ UNCHANGED store
    /\ UNCHANGED limits
    /\ UNCHANGED identity
    /\ UNCHANGED frontend

\* PUT /api/conversations/:id
updateConversationTitle(r) ==
    /\ Enter(r, "updateConversationTitle")
    /\ \E id \in ConvIds, title \in Titles, fails \in BOOLEAN :
         LET q == [reqs[r] EXCEPT !.invoked = TRUE, !.convId = id,
                                  !.target = TargetOf(id, reqs[r].user)]
             hit(c) == /\ RlsConversation(Client(r), c)
                       /\ c.id = id
                       /\ c.user_id = q.user
         IN  IF title = ""
             THEN /\ reqs' = [reqs EXCEPT ![r] =
                        Respond([reqs[r] EXCEPT !.invoked = TRUE], 400, {})]
                  /\ UNCHANGED store
             ELSE IF fails
             THEN /\ reqs' = [reqs EXCEPT ![r] = Respond(q, 500, {})]
                  /\ UNCHANGED store
             ELSE /\ conversations' =
                        {IF hit(c) THEN [c EXCEPT !.title = title] ELSE c :
                            c \in conversations}
                  /\ reqs' = [reqs EXCEPT ![r] = Respond(q, 200, {})]
                  /\ UNCHANGED <<messages, nextConvId, nextMsgId>>
    /\ UNCHANGED limits
    /\ UNCHANGED identity
    /\ UNCHANGED frontend

DeletedMessages_mutant(client, id) ==
    {m \in messages : RlsMessage(client, m)}

\* the rows of: delete from messages where conversation_id = id, under the
\* client's row-level security
DeletedMessages(client, id) ==
    {m \in messages : RlsMessage(client, m) /\ m.conversation_id = id}

\* DELETE /api/conversations/:id, up to the first store call of
\* db.deleteConversation: delete from messages where conversation_id = id
deleteConversation(r) ==
    /\ Enter(r, "deleteConversation")
    /\ \E id \in ConvIds, fails \in BOOLEAN :
         LET q == [reqs[r] EXCEPT !.invoked = TRUE, !.convId = id,
                                  !.target = TargetOf(id, reqs[r].user)]
         IN  IF fails
             THEN /\ reqs' = [reqs EXCEPT ![r] = Respond(q, 500, {})]
                  /\ UNCHANGED store
             ELSE /\ messages' = messages \ DeletedMessages(Client(r), id)
                  /\ reqs' = [reqs EXCEPT ![r] =
                        [q EXCEPT !.pc = "deleteConversation",
                                  !.lost = DeletedMessages(Client(r), id)]]
                  /\ UNCHANGED <<conversations, nextConvId, nextMsgId>>
    /\ UNCHANGED limits
    /\ UNCHANGED identity
    /\ UNCHANGED frontend

\* the second store call of db.deleteConversation: delete from conversations
\* where id = id and user_id = userId; then the response
deleteConversation_conversations(r) ==
    /\ reqs[r].pc = "deleteConversation"
    /\ \E fails \in BOOLEAN :
         LET q == reqs[r]
             hit(c) == /\ RlsConversation(Client(r), c)
                       /\ c.id = q.convId
                       /\ c.user_id = q.user
         IN  IF fails
             THEN /\ reqs' = [reqs EXCEPT ![r] = Respond(q, 500, {})]
                  /\ UNCHANGED store
             ELSE /\ conversations' = {c \in conversations : ~hit(c)}
                  /\ reqs' = [reqs EXCEPT ![r] = Respond(q, 200, {})]
                  /\ UNCHANGED <<messages, nextConvId, nextMsgId>>
    /\ UNCHANGED limits
    /\ UNCHANGED identity
    /\ UNCHANGED frontend

\* "First verify user owns the conversation": select user_id from
\* conversations where id = id, .single(); the result of the check is
\* "ok", or the message of the Error thrown
VerifyOwner(client, id, userId, fails) ==
    LET rows == {c \in conversations : RlsConversation(client, c) /\ c.id = id}
    IN  IF fails \/ rows = {} THEN "Conversation not found"
        ELSE IF (CHOOSE c \in rows : TRUE).user_id # userId
             THEN "Unauthorized access to conversation"
             ELSE "ok"

\* GET /api/conversations/:id/messages, up to the ownership check of
\* db.getConversationMessages
getConversationMessages(r) ==
    /\ Enter(r, "getConversationMessages")
    /\ \E id \in ConvIds, fails \in BOOLEAN :
         LET q == [reqs[r] EXCEPT !.invoked = TRUE, !.convId = id,
                                  !.target = TargetOf(id, reqs[r].user)]
         IN  reqs' = [reqs EXCEPT ![r] =
                IF VerifyOwner(Client(r), id, q.user, fails) = "ok"
                THEN [q EXCEPT !.pc = "getConversationMessages"]
                ELSE Respond(q, 500, {})]
    /\ UNCHANGED store
    /\ UNCHANGED limits
    /\ UNCHANGED identity
    /\ UNCHANGED frontend

\* select * from messages where conversation_id = id; then the response
getConversationMessages_messages(r) ==
    /\ reqs[r].pc = "getConversationMessages"
    /\ \E fails \in BOOLEAN :
         LET q == reqs[r]
             rows == {m \in messages : /\ RlsMessage(Client(r), m)
                                       /\ m.conversation_id = q.convId}
         IN  reqs' = [reqs EXCEPT ![r] =
                IF fails THEN Respond(q, 500, {}) ELSE Respond(q, 200, rows)]
    /\ UNCHANGED store
    /\ UNCHANGED limits
    /\ UNCHANGED identity
    /\ UNCHANGED frontend

\* POST /api/conversations/:id/messages, up to the ownership check of
\* db.addMessage
addMessage(r) ==
    LET Contents == {"", "hello"}
    IN
    \* a role the data model names, one it does not name, and none; the code
    \* treats "assistant" as it treats "user"
    LET Roles == {"", "user", "system"}
    IN
    /\ Enter(r, "addMessage")
    /\ \E id \in ConvIds, role \in Roles, content \in Contents,
          fails \in BOOLEAN :
         LET q == [reqs[r] EXCEPT !.invoked = TRUE, !.convId = id,
                                  !.target = TargetOf(id, reqs[r].user)]
         IN  reqs' = [reqs EXCEPT ![r] =
                IF role = "" \/ content = ""
                THEN Respond([reqs[r] EXCEPT !.invoked = TRUE], 400, {})
                ELSE IF VerifyOwner(Client(r), id, q.user, fails) = "ok"
                THEN [q EXCEPT !.pc = "addMessage", !.role = role,
                               !.content = content]
                ELSE Respond(q, 500, {})]
    /\ UNCHANGED store
    /\ UNCHANGED limits
    /\ UNCHANGED identity
    /\ UNCHANGED frontend

\* insert into messages (conversation_id, role, content); then the response.
\* Row-level security admits the row if it is visible to the client.
addMessage_insert(r) ==
    /\ reqs[r].pc = "addMessage"
    /\ \E fails \in StoreFails(nextMsgId <= MaxMsgId) :
         LET q == reqs[r]
             row == [id |-> nextMsgId, conversation_id |-> q.convId,
                     role |-> q.role, content |-> q.content]
         IN  IF ~fails /\ RlsMessage(Client(r), row)
             THEN /\ messages' = messages \cup {row}
                  /\ nextMsgId' = nextMsgId + 1
                  /\ reqs' = [reqs EXCEPT ![r] = Respond(q, 200, {row})]
                  /\ UNCHANGED <<conversations, nextConvId>>
             ELSE /\ reqs' = [reqs EXCEPT ![r] = Respond(q, 500, {})]
                  /\ UNCHANGED store
    /\ UNCHANGED limits
    /\ UNCHANGED identity
    /\ UNCHANGED frontend

\* ----------------------------------------------------- chat endpoints
\* req.body.message
MessageSamples ==
    LET Chars(n, c) == [i \in 1..n |-> c]
    IN
    { Undefined,
      Num(42),
      Str(<<>>),
      Str(<<" ", " ">>),
      Str(<<"h", "i">>),
      Str(<<"<", "b", ">">>),
      Str(<<"<", "b", ">", "h", "i", "<", "/", "b", ">">>),
      Str(<<"<", "s", "c", "r", "i", "p", "t", ">", "x",
            "<", "/", "s", "c", "r", "i", "p", "t", ">", "h", "i">>),
      Str(Chars(MaxMessageLength, "a")),
      Str(Chars(MaxMessageLength + 1, "a")) }

\* req.body.maxTokens
MaxTokensSamples ==
    { Undefined, Num(MinTokens - 1), Num(MinTokens), Num(MaxTokens),
      Num(MaxTokens + 1), Str(<<"a">>) }

\* req.body.temperature, in tenths
TemperatureSamples ==
    { Undefined, Num(MinTemperature - 1), Num(MinTemperature),
      Num(MaxTemperature), Num(MaxTemperature + 1), Str(<<"a">>) }

\* openai.moderations.create answers with results[0], in which flagged is
\* set when a category is, or throws an error with a code
Categories == {"violence", "harassment"}

ErrorCodes == {"insufficient_quota", "invalid_api_key",
               "rate_limit_exceeded", "server_error"}

\* the code of a TypeError thrown by the handler's own code: none
NoCode == "undefined"

Returned(result) == [threw |-> FALSE, code |-> "", result |-> result]

Threw(code) ==
    [threw |-> TRUE, code |-> code,
     result |-> [flagged |-> FALSE, categories |-> {}]]

ModerationOutcomes ==
    LET ModerationResults ==
            {[flagged |-> cats # {}, categories |-> cats] : cats \in SUBSET Categories}
    IN
    {Returned(res) : res \in ModerationResults}
        \cup {Threw(code) : code \in ErrorCodes}

CompletionOutcomes ==
    {Returned([flagged |-> FALSE, categories |-> {}])}
        \cup {Threw(code) : code \in ErrorCodes}

\* mainGpt.js, the catch block: the status for an error code
MainErrorStatus(code) ==
    IF code = "insufficient_quota" THEN 402
    ELSE IF code = "invalid_api_key" THEN 401
    ELSE 500

\* publicGpt.js, the catch block: the status for an error code
PublicErrorStatus(code) ==
    IF code = "invalid_api_key" THEN 500
    ELSE IF code = "insufficient_quota" THEN 500
    ELSE IF code = "rate_limit_exceeded" THEN 429
    ELSE 500

MainBlocks_mutant(result) == FALSE

\* mainGpt.js: if (moderationResult.flagged)
MainBlocks(result) == result.flagged

\* publicGpt.js: if (flaggedCategories.length > 0)
PublicBlocks(result) ==
    Cardinality({k \in Categories : k \in result.categories}) > 0

\* how the moderation call ended: it threw, or its result is flagged, or not
Verdict(out) ==
    IF out.threw THEN "threw"
    ELSE IF out.result.flagged THEN "flagged"
    ELSE "clean"

\* the request is answered; the slot keeps the request with the response
Answer(q, code) ==
    [q EXCEPT !.pc = "done", !.status = code, !.sent = @ + 1]

Caught(q, code, status) == Answer([q EXCEPT !.err = code], status)

\* the locals after const { message, maxTokens = 150, temperature = 0.7 }
Body(q, message, maxTokens, temperature) ==
    \* a destructuring default: const { f = d } = req.body
    LET Default(v, d) == IF v.t = "undefined" THEN d ELSE v
    IN
    [q EXCEPT !.invoked = TRUE,
              !.message = message,
              !.maxTokens = Default(maxTokens, Num(DefaultMaxTokens)),
              !.temperature = Default(temperature, Num(DefaultTemperature))]

CompletionCall(q, userContent) ==
    [called |-> TRUE, model |-> "gpt-4o-mini", system |-> "systemInstructions",
     user |-> userContent, max_tokens |-> q.maxTokens,
     temperature |-> q.temperature]

handleMainGpt_mutant(r) ==
    /\ Enter(r, "gpt")
    /\ \E message \in MessageSamples, maxTokens \in MaxTokensSamples,
          temperature \in TemperatureSamples :
         LET q == Body(reqs[r], message, maxTokens, temperature) IN
         reqs' = [reqs EXCEPT ![r] =
            IF ~Truthy(q.message) THEN Answer(q, 400)
            ELSE IF LengthOver(q.message, MaxMessageLength) THEN Answer(q, 400)
            ELSE IF JsLess(q.maxTokens, MinTokens)
                    \/ JsGreater(q.maxTokens, MaxTokens) THEN Answer(q, 400)
            ELSE IF JsLess(q.temperature, MinTemperature)
                    \/ JsGreater(q.temperature, MaxTemperature)
                 THEN Answer(q, 400)
            \* message.replace is not a function: TypeError, to the catch block
            ELSE IF q.message.t # "string"
                 THEN Caught(q, NoCode, MainErrorStatus(NoCode))
            ELSE [q EXCEPT !.pc = "handleMainGpt_completion",
                           !.sanitized = Sanitize(q.message.s)]]
    /\ UNCHANGED store
    /\ UNCHANGED limits
    /\ UNCHANGED identity
    /\ UNCHANGED frontend

\* POST /api/gpt: handleMainGpt up to the moderation call
handleMainGpt(r) ==
    /\ Enter(r, "gpt")
    /\ \E message \in MessageSamples, maxTokens \in MaxTokensSamples,
          temperature \in TemperatureSamples :
         LET q == Body(reqs[r], message, maxTokens, temperature) IN
         reqs' = [reqs EXCEPT ![r] =
            IF ~Truthy(q.message) THEN Answer(q, 400)
            ELSE IF LengthOver(q.message, MaxMessageLength) THEN Answer(q, 400)
            ELSE IF JsLess(q.maxTokens, MinTokens)
                    \/ JsGreater(q.maxTokens, MaxTokens) THEN Answer(q, 400)
            ELSE IF JsLess(q.temperature, MinTemperature)
                    \/ JsGreater(q.temperature, MaxTemperature)
                 THEN Answer(q, 400)
            \* message.replace is not a function: TypeError, to the catch block
            ELSE IF q.message.t # "string"
                 THEN Caught(q, NoCode, MainErrorStatus(NoCode))
            ELSE [q EXCEPT !.pc = "handleMainGpt_moderation",
                           !.sanitized = Sanitize(q.message.s)]]
    /\ UNCHANGED store
    /\ UNCHANGED limits
    /\ UNCHANGED identity
    /\ UNCHANGED frontend

\* the moderation call returns or throws; an error is logged and dropped
handleMainGpt_moderation(r) ==
    /\ reqs[r].pc = "handleMainGpt_moderation"
    /\ \E out \in ModerationOutcomes :
         LET q == [reqs[r] EXCEPT !.moderation = Verdict(out)] IN
         reqs' = [reqs EXCEPT ![r] =
            IF out.threw
            THEN [q EXCEPT !.pc = "handleMainGpt_completion"]
            ELSE IF MainBlocks(out.result)
            THEN Answer(q, 400)
            ELSE [q EXCEPT !.pc = "handleMainGpt_completion"]]
    /\ UNCHANGED store
    /\ UNCHANGED limits
    /\ UNCHANGED identity
    /\ UNCHANGED frontend

\* the completion call returns or throws
handleMainGpt_completion(r) ==
    /\ reqs[r].pc = "handleMainGpt_completion"
    /\ \E out \in CompletionOutcomes :
         LET q == [reqs[r] EXCEPT
                     !.completion = CompletionCall(reqs[r], reqs[r].sanitized)]
         IN  reqs' = [reqs EXCEPT ![r] =
                IF out.threw
                THEN Caught(q, out.code, MainErrorStatus(out.code))
                ELSE Answer(q, 200)]
    /\ UNCHANGED store
    /\ UNCHANGED limits
    /\ UNCHANGED identity
    /\ UNCHANGED frontend

\* POST /api/public/gpt: handlePublicGpt up to the moderation call
handlePublicGpt(r) ==
    /\ reqs[r].pc = "idle"
    /\ \E message \in MessageSamples, maxTokens \in MaxTokensSamples,
          temperature \in TemperatureSamples :
         LET q == Body([Idle EXCEPT !.route = "publicGpt"],
                       message, maxTokens, temperature) IN
         reqs' = [reqs EXCEPT ![r] =
            IF ~Truthy(q.message) \/ q.message.t # "string"
            THEN Answer(q, 400)
            ELSE IF Len(Trim(q.message.s)) = 0 THEN Answer(q, 400)
            ELSE IF JsLess(q.maxTokens, MinTokens)
                    \/ JsGreater(q.maxTokens, MaxTokens) THEN Answer(q, 400)
            ELSE [q EXCEPT !.pc = "handlePublicGpt_moderation"]]
    /\ UNCHANGED store
    /\ UNCHANGED limits
    /\ UNCHANGED identity
    /\ UNCHANGED frontend

\* the moderation call returns or throws; an error goes to the catch block
handlePublicGpt_moderation(r) ==
    /\ reqs[r].pc = "handlePublicGpt_moderation"
    /\ \E out \in ModerationOutcomes :
         LET q == [reqs[r] EXCEPT !.moderation = Verdict(out)] IN
         reqs' = [reqs EXCEPT ![r] =
            IF out.threw
            THEN Caught(q, out.code, PublicErrorStatus(out.code))
            ELSE IF PublicBlocks(out.result)
            THEN Answer(q, 400)
            ELSE [q EXCEPT !.pc = "handlePublicGpt_completion"]]
    /\ UNCHANGED store
    /\ UNCHANGED limits
    /\ UNCHANGED identity
    /\ UNCHANGED frontend

\* the completion call returns or throws
handlePublicGpt_completion(r) ==
    /\ reqs[r].pc = "handlePublicGpt_completion"
    /\ \E out \in CompletionOutcomes :
         LET q == [reqs[r] EXCEPT
                     !.completion = CompletionCall(reqs[r], reqs[r].message.s)]
         IN  reqs' = [reqs EXCEPT ![r] =
                IF out.threw
                THEN Caught(q, out.code, PublicErrorStatus(out.code))
                ELSE Answer(q, 200)]
    /\ UNCHANGED store
    /\ UNCHANGED limits
    /\ UNCHANGED identity
    /\ UNCHANGED frontend

\* ------------------------------------------- routes without a limiter
\* POST /api/auth/resend-confirmation: handleResendConfirmation up to the
\* generateLink call
handleResendConfirmation(r) ==
    \* req.body.email of POST /api/auth/resend-confirmation
    LET EmailSamples == {Undefined, Num(42), Str(<<>>), Str(<<"a", "@", "b">>)}
    IN
    /\ reqs[r].pc = "idle"
    /\ \E email \in EmailSamples :
         LET q == [Idle EXCEPT !.route = "resendConfirmation",
                               !.invoked = TRUE] IN
         reqs' = [reqs EXCEPT ![r] =
            IF ~Truthy(email) \/ email.t # "string"
            THEN Answer(q, 400)
            ELSE [q EXCEPT !.pc = "handleResendConfirmation_generateLink"]]
    /\ UNCHANGED store
    /\ UNCHANGED limits
    /\ UNCHANGED identity
    /\ UNCHANGED frontend

\* generateLink returns or throws; then the response
handleResendConfirmation_generateLink(r) ==
    \* supabase.auth.admin.generateLink: no error; an error whose message says
    \* the address has 'already been registered'; another error; or it throws
    LET GenerateLinkOutcomes == {"sent", "registered", "error", "throw"}
    IN
    /\ reqs[r].pc = "handleResendConfirmation_generateLink"
    /\ \E outcome \in GenerateLinkOutcomes :
         reqs' = [reqs EXCEPT ![r] =
            IF outcome = "throw" THEN Caught(reqs[r], NoCode, 500)
            ELSE IF outcome = "registered" THEN Answer(reqs[r], 400)
            ELSE IF outcome = "error" THEN Answer(reqs[r], 500)
            ELSE Answer(reqs[r], 200)]
    /\ UNCHANGED store
    /\ UNCHANGED limits
    /\ UNCHANGED identity
    /\ UNCHANGED frontend

\* POST /test-moderation: testModeration up to the moderation call
testModeration(r) ==
    /\ reqs[r].pc = "idle"
    /\ reqs' = [reqs EXCEPT ![r] =
                  [Idle EXCEPT !.route = "testModeration", !.invoked = TRUE,
                               !.pc = "testModeration_moderation"]]
    /\ UNCHANGED store
    /\ UNCHANGED limits
    /\ UNCHANGED identity
    /\ UNCHANGED frontend

\* the moderation call returns or throws; then the response
testModeration_moderation(r) ==
    /\ reqs[r].pc = "testModeration_moderation"
    /\ \E out \in ModerationOutcomes :
         reqs' = [reqs EXCEPT ![r] =
            IF out.threw THEN Caught(reqs[r], out.code, 500)
            ELSE Answer(reqs[r], 200)]
    /\ UNCHANGED store
    /\ UNCHANGED limits
    /\ UNCHANGED identity
    /\ UNCHANGED frontend

\* ------------------------------------------------- sign-up clean-up
\* the addresses users sign up with
Emails == {<<"a">>, <<"b">>}

Account(id, email, confirmed) ==
    [id |-> id, email |-> email, confirmed |-> confirmed]

\* the identity provider holds a user who has not confirmed their address
\* and one who has
IdentityAtStart ==
    /\ accounts = {Account(1, <<"a">>, FALSE), Account(2, <<"b">>, TRUE)}
    /\ nextUserId = 3

\* supabase.auth.signUp for an address no user has: a user with
\* email_confirmed_at unset
signUp ==
    /\ nextUserId <= MaxUserId
    /\ \E email \in Emails :
         /\ \A a \in accounts : a.email # email
         /\ accounts' = accounts \cup {Account(nextUserId, email, FALSE)}
    /\ nextUserId' = nextUserId + 1
    /\ UNCHANGED <<store, reqs, limits, frontend>>

\* a user follows the link of the confirmation mail: email_confirmed_at is set
confirmEmail ==
    /\ \E a \in accounts :
         /\ ~a.confirmed
         /\ accounts' = (accounts \ {a}) \cup {[a EXCEPT !.confirmed = TRUE]}
    /\ UNCHANGED <<store, reqs, limits, nextUserId, frontend>>

\* supabase.auth.admin.listUsers / deleteUser: the call returns its result,
\* returns an error, or throws
AdminOutcomes == {"ok", "error", "throw"}

\* handleCleanupUnconfirmed up to the listUsers call
handleCleanupUnconfirmed(r) ==
    \* req.body.email of POST /api/auth/cleanup-unconfirmed
    LET CleanupEmailSamples == {Undefined, Num(42)} \cup {Str(e) : e \in Emails}
    IN
    /\ reqs[r].pc = "idle"
    /\ \E email \in CleanupEmailSamples :
         LET q == [Idle EXCEPT !.route = "cleanupUnconfirmed",
                               !.invoked = TRUE] IN
         reqs' = [reqs EXCEPT ![r] =
            IF ~Truthy(email) \/ email.t # "string"
            THEN Answer(q, 400)
            ELSE [q EXCEPT !.pc = "handleCleanupUnconfirmed_listUsers",
                           !.email = email.s]]
    /\ UNCHANGED <<store, limits, identity, frontend>>

\* listUsers returns or throws: 500; 400 with emailExists if a user of
\* the list has the address and has confirmed it; otherwise the users of the
\* list with the address and email_confirmed_at unset are to be deleted
handleCleanupUnconfirmed_listUsers(r) ==
    /\ reqs[r].pc = "handleCleanupUnconfirmed_listUsers"
    /\ \E outcome \in AdminOutcomes :
         LET q == reqs[r]
             users == accounts
             confirmedUser ==
                 {u \in users : u.email = q.email /\ u.confirmed}
             unconfirmedUsers ==
                 {u \in users : u.email = q.email /\ ~u.confirmed}
         IN  reqs' = [reqs EXCEPT ![r] =
                IF outcome = "throw" THEN Caught(q, NoCode, 500)
                ELSE IF outcome = "error" THEN Answer(q, 500)
                ELSE IF confirmedUser # {}
                THEN Answer([q EXCEPT !.err = "emailExists"], 400)
                ELSE IF unconfirmedUsers = {} THEN Answer(q, 200)
                ELSE [q EXCEPT !.pc = "handleCleanupUnconfirmed_deleteUser",
                               !.todo = {u.id : u \in unconfirmedUsers}]]
    /\ UNCHANGED <<store, limits, identity, frontend>>

\* one pass of the loop: deleteUser(user.id) returns or throws; an error is
\* logged; after the last user the response
handleCleanupUnconfirmed_deleteUser(r) ==
    LET Min(ids) == CHOOSE i \in ids : \A j \in ids : i <= j
    IN
    /\ reqs[r].pc = "handleCleanupUnconfirmed_deleteUser"
    /\ \E outcome \in AdminOutcomes :
         LET q == reqs[r]
             id == Min(q.todo)
             gone == IF outcome = "ok" THEN {a \in accounts : a.id = id}
                     ELSE {}
             rest == [q EXCEPT !.todo = @ \ {id}, !.lost = @ \cup gone]
         IN  /\ accounts' = accounts \ gone
             /\ reqs' = [reqs EXCEPT ![r] =
                    IF outcome = "throw" THEN Caught(rest, NoCode, 500)
                    ELSE IF rest.todo = {} THEN Answer(rest, 200)
                    ELSE rest]
    /\ UNCHANGED <<store, limits, nextUserId, frontend>>

\* SpecCleanup: two sign-up clean-ups can be in flight while users sign up
\* and confirm their addresses.
NextCleanup ==
    \/ signUp
    \/ confirmEmail
    \/ \E r \in Reqs :
          \/ handleCleanupUnconfirmed(r)
          \/ handleCleanupUnconfirmed_listUsers(r)
          \/ handleCleanupUnconfirmed_deleteUser(r)
          \/ Finish(r)

\* ------------------------------------------------------------ frontend
\* The React components App (the signed-in chat) and PublicChat.  They
\* share no state, so each behaviour follows one of them.  A handler reads
\* the state values of the render it was created in (rendered); React
\* commits the updates an event handler makes before the next event, and
\* the updates made after an await in a later render.  The backend's
\* answers are the environment's choice.

\* slots of handler calls that are waiting for a network call
Calls == {1, 2}

NoConversation == [id |-> 0, title |-> <<>>]
NewConversationTitle == <<"New Conversation">>
\* the conversations the sidebar hands over: a new one and a titled one
SidebarConversations ==
    {[id |-> 1, title |-> NewConversationTitle], [id |-> 1, title |-> <<"h">>]}

Message(role, content) == [role |-> role, content |-> content]
Welcome == Message("assistant", <<"Hello!">>)
\* the answers of POST /api/gpt and POST /api/public/gpt: the reply, a
\* rejection by moderation, by a limiter, and any other failure
PostOutcomes == {"reply", "flagged", "limited", "failed"}

\* the text of the catch block for a failed call
ErrorMessage(outcome) ==
    CASE outcome = "flagged" -> Message("assistant", <<"flagged">>)
      [] outcome = "limited" -> Message("assistant", <<"Too many requests">>)
      [] OTHER -> Message("assistant", <<"Sorry">>)

IdleCall == [pc |-> "idle", userMessage |-> <<>>, conversation |-> NoConversation]

\* the state hooks of a freshly mounted component
Mounted(c) ==
    [user |-> FALSE,
     currentConversation |-> NoConversation,
     messages |-> IF c = "App" THEN <<>> ELSE <<Welcome>>,
     inputMessage |-> <<>>,
     isLoading |-> FALSE]

FrontendAtStart ==
    /\ component = "App"
    /\ state = Mounted("App")
    /\ rendered = state
    /\ calls = [t \in Calls |-> IdleCall]

\* a sendMessage call that has passed its guard and not reached its end
InFlight(call) ==
    call.pc \in {"saveUser", "getSession", "post", "saveReply", "saveError"}

\* the lowest free slot
FreeCall(t) ==
    /\ calls[t].pc = "idle"
    /\ \A u \in Calls : u < t => calls[u].pc # "idle"

\* the render React commits at the end of an event handler: the whole
\* state, or the committed render with the handler's updates only (updates
\* made after an await may wait for a later render)
Commit(full, partial) == {full, partial}

\* a later render commits the updates made after an await
render ==
    /\ rendered # state
    /\ rendered' = state
    /\ UNCHANGED <<component, state, calls>>
    /\ UNCHANGED <<store, reqs, limits, identity>>

\* what the chat view shows and lets through
ChatShown == component = "App" /\ rendered.user
InputDisabled(view) == view.isLoading \/ view.currentConversation = NoConversation
SendDisabled(view) ==
    Trim(view.inputMessage) = <<>> \/ view.isLoading
        \/ view.currentConversation = NoConversation

\* ---- App
onChange(v) ==
    LET Typed(s, text) == [s EXCEPT !.inputMessage = text]
    IN
    /\ ChatShown
    /\ ~InputDisabled(rendered)
    /\ v # rendered.inputMessage
    /\ state' = Typed(state, v)
    /\ rendered' \in Commit(state', Typed(rendered, v))
    /\ UNCHANGED <<component, calls>>
    /\ UNCHANGED <<store, reqs, limits, identity>>

handleAuthSuccess ==
    LET SignedIn(s) == [s EXCEPT !.user = TRUE]
    IN
    /\ component = "App"
    /\ ~rendered.user
    /\ state' = SignedIn(state)
    /\ rendered' \in Commit(state', SignedIn(rendered))
    /\ UNCHANGED <<component, calls>>
    /\ UNCHANGED <<store, reqs, limits, identity>>

\* handleSignOut up to its await
handleSignOut(t) ==
    /\ ChatShown
    /\ FreeCall(t)
    /\ calls' = [calls EXCEPT ![t].pc = "signOut"]
    /\ UNCHANGED <<component, state, rendered>>
    /\ UNCHANGED <<store, reqs, limits, identity>>

handleSignOut_signOut(t) ==
    /\ calls[t].pc = "signOut"
    /\ state' = [state EXCEPT !.user = FALSE,
                              !.currentConversation = NoConversation,
                              !.messages = <<>>]
    /\ calls' = [calls EXCEPT ![t] = IdleCall]
    /\ UNCHANGED <<component, rendered>>
    /\ UNCHANGED <<store, reqs, limits, identity>>

\* handleConversationSelect up to its await; the sidebar passes a
\* conversation, or null when the selected one was deleted
handleConversationSelect(t, c) ==
    LET Selected(s, conv) == [s EXCEPT !.currentConversation = conv, !.messages = <<>>]
    IN
    /\ ChatShown
    /\ FreeCall(t)
    /\ state' = Selected(state, c)
    /\ rendered' \in Commit(state', Selected(rendered, c))
    /\ calls' = IF c = NoConversation THEN calls
                ELSE [calls EXCEPT ![t].pc = "load"]
    /\ UNCHANGED component
    /\ UNCHANGED <<store, reqs, limits, identity>>

\* loadConversationMessages: the stored messages, the welcome message for a
\* conversation without any, or the error message
handleConversationSelect_load(t) ==
    \* the messages a conversation holds on the server
    LET Histories == {<<>>, <<Message("user", <<"h">>), Message("assistant", <<"reply">>)>>}
    IN
    LET LoadError == Message("assistant", <<"error loading">>)
    IN
    /\ calls[t].pc = "load"
    /\ \E loaded \in Histories \cup {<<LoadError>>} :
          state' = [state EXCEPT !.messages =
                        IF loaded = <<>> THEN <<Welcome>> ELSE loaded]
    /\ calls' = [calls EXCEPT ![t] = IdleCall]
    /\ UNCHANGED <<component, rendered>>
    /\ UNCHANGED <<store, reqs, limits, identity>>

handleNewConversation(c) ==
    LET Opened(s, conv) == [s EXCEPT !.currentConversation = conv, !.messages = <<Welcome>>]
    IN
    /\ ChatShown
    /\ c.title = NewConversationTitle
    /\ state' = Opened(state, c)
    /\ rendered' \in Commit(state', Opened(rendered, c))
    /\ UNCHANGED <<component, calls>>
    /\ UNCHANGED <<store, reqs, limits, identity>>

\* the updates of sendMessage before its first await
Started(s, userMessage) ==
    [s EXCEPT !.inputMessage = <<>>,
              !.messages = Append(@, Message("user", userMessage)),
              !.isLoading = TRUE]

\* sendMessage up to its first await, without setIsLoading(true)
sendMessage_mutant(t) ==
    /\ FreeCall(t)
    /\ Len(state.messages) < MaxChat
    /\ IF SendDisabled(rendered)
       THEN UNCHANGED <<state, rendered, calls>>
       ELSE LET userMessage == Trim(rendered.inputMessage)
                Sent(s) == [Started(s, userMessage) EXCEPT !.isLoading = s.isLoading]
            IN  /\ state' = Sent(state)
                /\ rendered' \in Commit(state', Sent(rendered))
                /\ calls' = [calls EXCEPT ![t] =
                                [pc |-> "saveUser", userMessage |-> userMessage,
                                 conversation |-> rendered.currentConversation]]
    /\ UNCHANGED component
    /\ UNCHANGED <<store, reqs, limits, identity>>

\* sendMessage up to its first await: the guard reads the render's values
sendMessage(t) ==
    /\ FreeCall(t)
    /\ Len(state.messages) < MaxChat
    /\ IF SendDisabled(rendered)
       THEN UNCHANGED <<state, rendered, calls>>
       ELSE LET userMessage == Trim(rendered.inputMessage)
            IN  /\ state' = Started(state, userMessage)
                /\ rendered' \in Commit(state', Started(rendered, userMessage))
                /\ calls' = [calls EXCEPT ![t] =
                                [pc |-> "saveUser", userMessage |-> userMessage,
                                 conversation |-> rendered.currentConversation]]
    /\ UNCHANGED component
    /\ UNCHANGED <<store, reqs, limits, identity>>

\* a click on the send button
onClick(t) ==
    /\ ChatShown
    /\ ~SendDisabled(rendered)
    /\ sendMessage(t)

\* Enter in the textarea
handleKeyPress(t) ==
    /\ ChatShown
    /\ ~InputDisabled(rendered)
    /\ sendMessage(t)

\* saveMessageToDatabase(userMessageObj) has settled: it catches every
\* error; after a save that succeeded, updateConversationTitle gives a
\* conversation still called "New Conversation" the message as its title
sendMessage_saveUser(t) ==
    /\ calls[t].pc = "saveUser"
    /\ \E saved \in BOOLEAN, titled \in BOOLEAN :
          state' = IF /\ saved /\ titled
                      /\ calls[t].conversation.title = NewConversationTitle
                      /\ state.currentConversation # NoConversation
                   THEN [state EXCEPT !.currentConversation.title =
                                          calls[t].userMessage]
                   ELSE state
    /\ calls' = [calls EXCEPT ![t].pc = "getSession"]
    /\ UNCHANGED <<component, rendered>>
    /\ UNCHANGED <<store, reqs, limits, identity>>

\* the catch block up to its await
Failed(s, outcome) == [s EXCEPT !.messages = Append(@, ErrorMessage(outcome))]

\* supabase.auth.getSession() has settled: a session, none, or a rejection
sendMessage_getSession(t) ==
    /\ calls[t].pc = "getSession"
    /\ \E session \in {"session", "none", "rejected"} :
          IF session = "session"
          THEN /\ calls' = [calls EXCEPT ![t].pc = "post"]
               /\ UNCHANGED state
          ELSE /\ calls' = [calls EXCEPT ![t].pc = "saveError"]
               /\ state' = Failed(state, "failed")
    /\ UNCHANGED <<component, rendered>>
    /\ UNCHANGED <<store, reqs, limits, identity>>

Replied(s) == [s EXCEPT !.messages = Append(@, Message("assistant", <<"reply">>))]

\* axios.post(/api/gpt) has settled
sendMessage_post(t) ==
    /\ calls[t].pc = "post"
    /\ component = "App"
    /\ \E outcome \in PostOutcomes :
          IF outcome = "reply"
          THEN /\ calls' = [calls EXCEPT ![t].pc = "saveReply"]
               /\ state' = Replied(state)
          ELSE /\ calls' = [calls EXCEPT ![t].pc = "saveError"]
               /\ state' = Failed(state, outcome)
    /\ UNCHANGED <<component, rendered>>
    /\ UNCHANGED <<store, reqs, limits, identity>>

\* the finally block
Finished(s) == [s EXCEPT !.isLoading = FALSE]

\* saveMessageToDatabase(aiMessageObj) has settled, then the finally block
sendMessage_saveReply(t) ==
    /\ calls[t].pc = "saveReply"
    /\ state' = Finished(state)
    /\ calls' = [calls EXCEPT ![t] = IdleCall]
    /\ UNCHANGED <<component, rendered>>
    /\ UNCHANGED <<store, reqs, limits, identity>>

\* the catch block's saveMessageToDatabase(errorMessageObj) has settled
\* and the turn ends without the finally block
sendMessage_saveError_mutant(t) ==
    /\ calls[t].pc = "saveError"
    /\ calls' = [calls EXCEPT ![t] = IdleCall]
    /\ UNCHANGED <<component, state, rendered>>
    /\ UNCHANGED <<store, reqs, limits, identity>>

\* the catch block's saveMessageToDatabase(errorMessageObj) has settled,
\* then the finally block
sendMessage_saveError(t) ==
    /\ calls[t].pc = "saveError"
    /\ state' = Finished(state)
    /\ calls' = [calls EXCEPT ![t] = IdleCall]
    /\ UNCHANGED <<component, rendered>>
    /\ UNCHANGED <<store, reqs, limits, identity>>

\* ---- PublicChat
PublicSendDisabled(view) == Trim(view.inputMessage) = <<>> \/ view.isLoading

PublicChat_onChange(v) ==
    LET Typed(s, text) == [s EXCEPT !.inputMessage = text]
    IN
    /\ component = "PublicChat"
    /\ ~rendered.isLoading
    /\ v # rendered.inputMessage
    /\ state' = Typed(state, v)
    /\ rendered' \in Commit(state', Typed(rendered, v))
    /\ UNCHANGED <<component, calls>>
    /\ UNCHANGED <<store, reqs, limits, identity>>

\* PublicChat's sendMessage up to its await
PublicChat_sendMessage(t) ==
    /\ FreeCall(t)
    /\ Len(state.messages) < MaxChat
    /\ IF PublicSendDisabled(rendered)
       THEN UNCHANGED <<state, rendered, calls>>
       ELSE LET userMessage == Trim(rendered.inputMessage)
            IN  /\ state' = Started(state, userMessage)
                /\ rendered' \in Commit(state', Started(rendered, userMessage))
                /\ calls' = [calls EXCEPT ![t] =
                                [pc |-> "post", userMessage |-> userMessage,
                                 conversation |-> NoConversation]]
    /\ UNCHANGED component
    /\ UNCHANGED <<store, reqs, limits, identity>>

PublicChat_onClick(t) ==
    /\ component = "PublicChat"
    /\ ~PublicSendDisabled(rendered)
    /\ PublicChat_sendMessage(t)

PublicChat_handleKeyPress(t) ==
    /\ component = "PublicChat"
    /\ ~rendered.isLoading
    /\ PublicChat_sendMessage(t)

\* axios.post(/api/public/gpt) has settled; try, catch and finally make
\* their updates together
PublicChat_sendMessage_post(t) ==
    /\ calls[t].pc = "post"
    /\ component = "PublicChat"
    /\ \E outcome \in PostOutcomes :
          state' = Finished(IF outcome = "reply" THEN Replied(state)
                            ELSE Failed(state, outcome))
    /\ calls' = [calls EXCEPT ![t] = IdleCall]
    /\ UNCHANGED <<component, rendered>>
    /\ UNCHANGED <<store, reqs, limits, identity>>

\* what the user and the network do to the two components
NextChat ==
    \/ render
    \/ handleAuthSuccess
    \* the textarea comes to hold nothing, white space, or a message
    \/ \E v \in {<<>>, <<" ">>, <<"h">>} : onChange(v) \/ PublicChat_onChange(v)
    \/ \E c \in SidebarConversations : handleNewConversation(c)
    \/ \E t \in Calls :
          \/ handleSignOut(t)
          \/ handleSignOut_signOut(t)
          \/ \E c \in SidebarConversations \cup {NoConversation} :
                handleConversationSelect(t, c)
          \/ handleConversationSelect_load(t)
          \/ onClick(t)
          \/ handleKeyPress(t)
          \/ sendMessage_saveUser(t)
          \/ sendMessage_getSession(t)
          \/ sendMessage_post(t)
          \/ sendMessage_saveReply(t)
          \/ sendMessage_saveError(t)
          \/ PublicChat_onClick(t)
          \/ PublicChat_handleKeyPress(t)
          \/ PublicChat_sendMessage_post(t)

\* the limiters' stores are empty and no session id has been generated
LimitsAtStart ==
    /\ now = 0
    /\ limiterHits = {}
    /\ publicHits = {}
    /\ nextSessionId = 1

\* ------------------------------------------------------ specifications
\* Spec: two users share the store.  bob has a conversation with one
\* message, alice has a conversation; requests of both users on the routes
\* that read, rename, delete and add interleave.
Conv(id, userId, title) == [id |-> id, user_id |-> userId, title |-> title]

Msg(id, convId, role, content) ==
    [id |-> id, conversation_id |-> convId, role |-> role, content |-> content]

Init ==
    /\ conversations = {Conv(1, "bob", "t1"), Conv(2, "alice", "t1")}
    /\ messages = {Msg(1, 1, "user", "hello")}
    /\ nextConvId = 3
    /\ nextMsgId = 2
    /\ reqs = [r \in Reqs |-> Idle]
    /\ LimitsAtStart
    /\ IdentityAtStart
    /\ FrontendAtStart

Next ==
    \E r \in Reqs :
        \/ Receive(r, DbRoutes \ {"createConversation"})
        \/ authenticateUser(r)
        \/ getUserConversations(r)
        \/ updateConversationTitle(r)
        \/ deleteConversation(r)
        \/ deleteConversation_conversations(r)
        \/ getConversationMessages(r)
        \/ getConversationMessages_messages(r)
        \/ addMessage(r)
        \/ addMessage_insert(r)
        \/ Finish(r)

Spec == Init /\ [][Next]_vars

\* SpecQuota: the conversation limit.  alice holds two conversations;
\* creations and deletions of both users interleave.
InitQuota ==
    /\ conversations = {Conv(1, "alice", "t1"), Conv(2, "alice", "t1")}
    /\ messages = {}
    /\ nextConvId = 3
    /\ nextMsgId = 1
    /\ reqs = [r \in Reqs |-> Idle]
    /\ LimitsAtStart
    /\ IdentityAtStart
    /\ FrontendAtStart

NextQuota ==
    \E r \in Reqs :
        \/ Receive(r, {"createConversation", "deleteConversation"})
        \/ authenticateUser(r)
        \/ createConversation(r)
        \/ deleteConversation(r)
        \/ deleteConversation_conversations(r)
        \/ Finish(r)

SpecQuota == InitQuota /\ [][NextQuota]_vars

\* SpecFrame: the store of Spec, with one more conversation to be created.
\* One request at a time runs any conversation or message handler on a
\* store that holds messages.
InitFrame ==
    /\ conversations = {Conv(1, "bob", "t1"), Conv(2, "alice", "t1")}
    /\ messages = {Msg(1, 1, "user", "hello")}
    /\ nextConvId = MaxConvId
    /\ nextMsgId = 2
    /\ reqs = [r \in Reqs |-> Idle]
    /\ LimitsAtStart
    /\ IdentityAtStart
    /\ FrontendAtStart

NextFrame ==
    \E r \in {1} :
          \/ Receive(r, DbRoutes)
          \/ authenticateUser(r)
          \/ createConversation(r)
          \/ getUserConversations(r)
          \/ updateConversationTitle(r)
          \/ deleteConversation(r)
          \/ deleteConversation_conversations(r)
          \/ getConversationMessages(r)
          \/ getConversationMessages_messages(r)
          \/ addMessage(r)
          \/ addMessage_insert(r)
          \/ Finish(r)

SpecFrame == InitFrame /\ [][NextFrame]_vars

\* SpecApi: one request at a time on every route: the public chat route,
\* the authenticated routes, and the routes of handleResendConfirmation and
\* testModeration.  The store has issued all but its last ids.
AuthRoutes == DbRoutes \cup {"gpt"}

InitApi ==
    /\ conversations = {}
    /\ messages = {}
    /\ nextConvId = MaxConvId
    /\ nextMsgId = MaxMsgId
    /\ reqs = [r \in Reqs |-> Idle]
    /\ LimitsAtStart
    /\ IdentityAtStart
    /\ FrontendAtStart

NextApi ==
    \E r \in {1} :
        \/ Receive(r, AuthRoutes)
        \/ authenticateUser(r)
        \/ handleMainGpt(r)
        \/ handleMainGpt_moderation(r)
        \/ handleMainGpt_completion(r)
        \/ handlePublicGpt(r)
        \/ handlePublicGpt_moderation(r)
        \/ handlePublicGpt_completion(r)
        \/ handleResendConfirmation(r)
        \/ handleResendConfirmation_generateLink(r)
        \/ testModeration(r)
        \/ testModeration_moderation(r)
        \/ createConversation(r)
        \/ getUserConversations(r)
        \/ updateConversationTitle(r)
        \/ deleteConversation(r)
        \/ deleteConversation_conversations(r)
        \/ getConversationMessages(r)
        \/ getConversationMessages_messages(r)
        \/ addMessage(r)
        \/ addMessage_insert(r)
        \/ Finish(r)

SpecApi == InitApi /\ [][NextApi]_vars

\* ------------------------------------------------------- rate limiting
\* rateLimiting.js and the middleware order of utilityRoutes.js: the session
\* middleware, then the limiter mounted on /api/, then, on the public chat
\* route, publicRateLimit, then the route's callbacks.
\*
\* Time is counted in ticks: windowMs, 15 minutes, is WindowTicks ticks.  A
\* limiter keeps for a key the number of hits in the key's current window;
\* the window starts with the first hit counted for the key and ends
\* windowMs later.  Kept beside the count for the properties: win, the
\* requests of the key the limiter let pass in the current window; cur and
\* prev, those it let pass during the current and the previous tick.
WindowTicks == 2

LimiterMax == 50

PublicMax == 10

SessionKey(id) == [kind |-> "session", id |-> id, ip |-> "", day |-> 0]

\* crypto.createHash('sha256').update(req.ip + date + salt).digest('hex'):
\* one digest for each pair of address and date, the salt being fixed
Sha256(ip, date) == [kind |-> "sha256", id |-> 0, ip |-> ip, day |-> date]

IpKey(ip) == [kind |-> "ip", id |-> 0, ip |-> ip, day |-> 0]

\* new Date().toDateString(): the day the tick lies in
DateString(t) == t \div (96 * WindowTicks)

LimiterKey_mutant(req, t) == Sha256(req.ip, DateString(t))

\* limiter, keyGenerator
LimiterKey(req, t) ==
    IF req.sessionID # NoSession THEN SessionKey(req.sessionID)
    ELSE Sha256(req.ip, DateString(t))

NoEntry(key) ==
    [key |-> key, count |-> 0, resetTime |-> 0, win |-> 0, cur |-> 0,
     prev |-> 0]

\* the store counts a hit for the key, in a new window if it has none
Increment(hits, key, t) ==
    LET EntryOf(hs, k) ==
            IF \E e \in hs : e.key = k THEN CHOOSE e \in hs : e.key = k
            ELSE NoEntry(k)
    IN
    LET e == EntryOf(hits, key) IN
    IF e.count = 0 \/ t >= e.resetTime
    THEN [e EXCEPT !.count = 1, !.resetTime = t + WindowTicks, !.win = 0]
    ELSE [e EXCEPT !.count = @ + 1]

Admits_mutant(count, max) == count <= max + 1

\* the request passes unless the count exceeds max
Admits(count, max) == count <= max

Passed(e) == [e EXCEPT !.win = @ + 1, !.cur = @ + 1]

Put(hits, e) == {x \in hits : x.key # e.key} \cup {e}

Expire(hits, t) ==
    \* a tick passes: windows that have ended are dropped
    LET Roll(e, at) ==
            LET f == [e EXCEPT !.prev = e.cur, !.cur = 0] IN
            IF at >= e.resetTime
            THEN [f EXCEPT !.count = 0, !.resetTime = 0, !.win = 0]
            ELSE f
    IN
    {f \in {Roll(e, t) : e \in hits} : f.count > 0 \/ f.prev > 0}

Tick ==
    /\ now < MaxTime
    /\ now' = now + 1
    /\ limiterHits' = Expire(limiterHits, now + 1)
    /\ publicHits' = Expire(publicHits, now + 1)
    /\ UNCHANGED <<store, reqs, nextSessionId, identity, frontend>>

\* a route behind authenticateUser and the public chat route
LimitRoutes == {"gpt", "publicGpt"}

\* the limiter's handler: 429 with the limiter's message
TooManyRequests(q, limiter) ==
    [q EXCEPT !.pc = "done", !.status = 429, !.limit.by = limiter,
              !.sent = @ + 1]

\* A request to a route arrives from an address: the session middleware
\* runs, then, on a path under /api/, the limiter and, on the public chat
\* route, publicRateLimit.
Arrive(r, routes) ==
    \* the routes whose path starts with /api/: app.use('/api/', limiter)
    LET ApiRoutes == AuthRoutes \cup {"publicGpt", "resendConfirmation"}
    IN
    \* publicRateLimit, keyGenerator
    LET PublicKey(req) == IpKey(req.ip)
    IN
    \* express-session with saveUninitialized: false and resave: false, in an
    \* application that stores nothing in req.session: no session is saved and
    \* no cookie is set, so req.sessionID is an id generated for this request.
    LET GenerateSessionId == nextSessionId
    IN
    LET Ips == {"ip1", "ip2"}
    IN
    /\ reqs[r].pc = "idle"
    /\ nextSessionId <= MaxSessionId
    /\ \E route \in routes, ip \in Ips :
         LET req == [ip |-> ip, sessionID |-> GenerateSessionId]
             mounted == route \in ApiRoutes
             key == IF mounted THEN LimiterKey(req, now) ELSE NoKey
             e1 == IF mounted THEN Increment(limiterHits, key, now)
                   ELSE NoEntry(NoKey)
             ok1 == ~mounted \/ Admits(e1.count, LimiterMax)
             pkey == PublicKey(req)
             e2 == Increment(publicHits, pkey, now)
             ok2 == Admits(e2.count, PublicMax)
             q == [Idle EXCEPT !.route = route,
                     !.limit = [ip |-> ip, sessionID |-> req.sessionID,
                                key |-> key, count |-> e1.count,
                                pkey |-> IF ok1 /\ route = "publicGpt"
                                         THEN pkey ELSE NoKey,
                                pcount |-> IF ok1 /\ route = "publicGpt"
                                           THEN e2.count ELSE 0,
                                by |-> ""]]
         IN  /\ limiterHits' =
                    IF mounted
                    THEN Put(limiterHits, IF ok1 THEN Passed(e1) ELSE e1)
                    ELSE limiterHits
             /\ publicHits' =
                    IF ok1 /\ route = "publicGpt"
                    THEN Put(publicHits, IF ok2 THEN Passed(e2) ELSE e2)
                    ELSE publicHits
             /\ reqs' = [reqs EXCEPT ![r] =
                    IF ~ok1 THEN TooManyRequests(q, "limiter")
                    ELSE IF route = "publicGpt" /\ ~ok2
                    THEN TooManyRequests(q, "publicRateLimit")
                    ELSE [q EXCEPT !.pc = "admitted"]]
    /\ nextSessionId' = nextSessionId + 1
    /\ UNCHANGED <<store, now, identity, frontend>>

\* next(): the request goes on to the route's callbacks, which answer it:
\* the handler on a route registered without authenticateUser,
\* authenticateUser and then the handler, if authenticateUser calls next(),
\* on the other routes.
Route(r) ==
    \* the routes registered without authenticateUser
    LET OpenRoutes == {"publicGpt", "resendConfirmation", "testModeration"}
    IN
    /\ reqs[r].pc = "admitted"
    /\ \E invoked \in IF reqs[r].route \in OpenRoutes THEN {TRUE}
                                                      ELSE BOOLEAN :
         reqs' = [reqs EXCEPT ![r] =
            [@ EXCEPT !.pc = "done", !.invoked = invoked,
                      !.status = IF invoked THEN 200 ELSE 401,
                      !.sent = @ + 1]]
    /\ UNCHANGED <<store, limits, identity, frontend>>

\* SpecLimit: requests to the routes under /api/ arrive from two addresses
\* while time passes; one request is in the middleware chain at a time.
InitLimit ==
    /\ conversations = {}
    /\ messages = {}
    /\ nextConvId = MaxConvId
    /\ nextMsgId = MaxMsgId
    /\ reqs = [r \in Reqs |-> Idle]
    /\ LimitsAtStart
    /\ IdentityAtStart
    /\ FrontendAtStart

NextLimit ==
    \/ Tick
    \/ \E r \in {1} :
        \/ Arrive(r, LimitRoutes)
        \/ Route(r)
        \/ Finish(r)

SpecLimit == InitLimit /\ [][NextLimit]_vars

SpecCleanup == InitLimit /\ [][NextCleanup]_vars

\* SpecClient: two requests can be in the middleware chain together, within
\* one window of the limiters (no time passes).
NextClient ==
    \E r \in Reqs :
        \/ Arrive(r, LimitRoutes)
        \/ Route(r)
        \/ Finish(r)

SpecClient == InitLimit /\ [][NextClient]_vars

\* SpecRoutes: one request at a time to the routes whose handlers call a
\* provider, within one window of the limiters.
ProviderRoutes == {"gpt", "publicGpt", "resendConfirmation", "testModeration"}

NextRoutes ==
    \E r \in {1} :
        \/ Arrive(r, ProviderRoutes)
        \/ Route(r)
        \/ Finish(r)

SpecRoutes == InitLimit /\ [][NextRoutes]_vars

\* the frontend alone: either component, freshly mounted, App after its
\* session check found a user or none
InitChat ==
    /\ conversations = {} /\ messages = {}
    /\ nextConvId = 1 /\ nextMsgId = 1
    /\ reqs = [r \in Reqs |-> Idle]
    /\ LimitsAtStart
    /\ IdentityAtStart
    /\ component \in {"App", "PublicChat"}
    /\ \E u \in BOOLEAN :
          state = [Mounted(component) EXCEPT !.user = u /\ component = "App"]
    /\ rendered = state
    /\ calls = [t \in Calls |-> IdleCall]

SpecChat == InitChat /\ [][NextChat]_vars

\* SpecChat in which every network call a handler awaits settles
SpecChatFair ==
    /\ SpecChat
    /\ \A t \in Calls :
          /\ WF_vars(sendMessage_saveUser(t))
          /\ WF_vars(sendMessage_getSession(t))
          /\ WF_vars(sendMessage_post(t))
          /\ WF_vars(sendMessage_saveReply(t))
          /\ WF_vars(sendMessage_saveError(t))
          /\ WF_vars(PublicChat_sendMessage_post(t))

\* ---------------------------------------------------------------- claims
ChatRoutes == {"gpt", "publicGpt"}

C3_HandlerOnlyAfterAuth ==
    LET ValidBearer(hdr) == HasBearer(hdr) /\ TokenUser(BearerToken(hdr)) # NoUser
    IN
    \A r \in Reqs :
        LET q == reqs[r] IN
        /\ (q.route \in AuthRoutes /\ q.pc \notin {"idle", "getUser", "done"})
              => ValidBearer(q.hdr) /\ q.user = TokenUser(BearerToken(q.hdr))
        /\ (q.route = "gpt" /\ q.invoked) => ValidBearer(q.hdr)
        /\ (q.pc = "getUser") => ~q.invoked
        /\ (q.pc = "done" /\ ~q.invoked) => q.status = 401
        /\ (q.pc = "done" /\ q.hdr # NoHeader /\ ~ValidBearer(q.hdr))
              => q.status = 401 /\ ~q.invoked

C3_Witness ==
    \E r \in Reqs :
        /\ reqs[r].pc = "done"
        /\ HasBearer(reqs[r].hdr)
        /\ BearerToken(reqs[r].hdr) = BadToken
        /\ reqs[r].status = 401
        /\ ~reqs[r].invoked

\* C4: in every reachable state of the store each user owns at most 3
\* conversations, whatever the interleaving of creations and deletions.
OwnedBy(u) == {c \in conversations : c.user_id = u}

C4_AtMostThreeConversations ==
    \A u \in Users : Cardinality(OwnedBy(u)) <= MaxConversationsPerUser

\* two creations of alice were in flight together; one was answered 200,
\* the other 500, and she holds three conversations
C4_Witness ==
    /\ Cardinality(OwnedBy("alice")) = MaxConversationsPerUser
    /\ \E r1, r2 \in Reqs :
        /\ r1 # r2
        /\ reqs[r1].pc = "done" /\ reqs[r1].route = "createConversation"
        /\ reqs[r1].status = 200
        /\ reqs[r2].pc = "done" /\ reqs[r2].route = "createConversation"
        /\ reqs[r2].status = 500

\* C2: no step of a request of user A removes or changes a conversation or
\* a message that does not belong to A, and every row a request of A is
\* answered with belongs to A.
C2_Isolation ==
    [][\A r \in Reqs :
         reqs'[r] # reqs[r] =>
           LET actor == reqs[r].user
               MessageRoutes == {"getConversationMessages", "addMessage"}
               ConversationRoutes == {"createConversation", "getUserConversations"}
               OwnerOf(convId) ==
                   IF \E c \in conversations : c.id = convId
                   THEN (CHOOSE c \in conversations : c.id = convId).user_id
                   ELSE NoUser
           IN
           /\ \A c \in conversations : c.user_id # actor => c \in conversations'
           /\ \A m \in messages :
                  OwnerOf(m.conversation_id) # actor => m \in messages'
           /\ (reqs'[r].pc = "done" /\ reqs'[r].route \in ConversationRoutes)
                 => \A row \in reqs'[r].data : row.user_id = actor
           /\ (reqs'[r].pc = "done" /\ reqs'[r].route \in MessageRoutes)
                 => \A row \in reqs'[r].data :
                        OwnerOf(row.conversation_id) = actor]_vars

\* alice's deletion of bob's conversation was carried out and answered,
\* and bob's conversation and its message are in the store
C2_Witness ==
    /\ \E r \in Reqs :
        /\ reqs[r].pc = "done"
        /\ reqs[r].route = "deleteConversation"
        /\ reqs[r].target = "foreign"
        /\ reqs[r].convId = 1
    /\ \E c \in conversations : c.id = 1 /\ c.user_id = "bob"
    /\ \E m \in messages : m.conversation_id = 1

\* C5: once the owner's deleteConversation is answered with success, the
\* store holds no conversation with that id and no message with that
\* conversation_id.
C5_DeleteLeavesNothing ==
    \A r \in Reqs :
        (/\ reqs[r].pc = "done"
         /\ reqs[r].route = "deleteConversation"
         /\ reqs[r].target = "own"
         /\ reqs[r].status = 200)
        => /\ \A c \in conversations : c.id # reqs[r].convId
           /\ \A m \in messages : m.conversation_id # reqs[r].convId

\* C6: on either chat endpoint a request whose message is longer than 4000
\* characters is answered 400 by validation.
C6_TooLongRejected ==
    \A r \in Reqs :
        (/\ reqs[r].route \in ChatRoutes
         /\ reqs[r].invoked
         /\ LengthOver(reqs[r].message, MaxMessageLength))
        => reqs[r].pc = "done" /\ reqs[r].status = 400

\* C7: a chat request whose maxTokens is not within [1, 1000] or whose
\* temperature is not within [0, 1] is answered 400, and every completion
\* call carries max_tokens within [1, 1000] and temperature within [0, 1].
C7_ParametersInRange ==
    LET Within(v, lo, hi) == v.t = "number" /\ lo <= v.n /\ v.n <= hi
    IN
    \A r \in Reqs :
        LET q == reqs[r] IN
        /\ (/\ q.route \in ChatRoutes
            /\ q.invoked
            /\ \/ ~Within(q.maxTokens, MinTokens, MaxTokens)
               \/ ~Within(q.temperature, MinTemperature, MaxTemperature))
           => q.pc = "done" /\ q.status = 400
        /\ q.completion.called
           => /\ Within(q.completion.max_tokens, MinTokens, MaxTokens)
              /\ Within(q.completion.temperature,
                        MinTemperature, MaxTemperature)

\* C8: in both chat handlers a moderation call that throws does not end the
\* request: the handler goes on to the completion call.
C8_ModerationFailsOpen ==
    \A r \in Reqs :
        (reqs[r].route \in ChatRoutes /\ reqs[r].moderation = "threw")
        => \/ reqs[r].pc \in {"handleMainGpt_completion",
                              "handlePublicGpt_completion"}
           \/ reqs[r].completion.called

\* C9: a conversation operation (read messages, add message, rename,
\* delete) on a conversation of another user is answered 500 or 403, never
\* with success.
C9_ForeignNeverSucceeds ==
    \A r \in Reqs :
        (/\ reqs[r].pc = "done"
         /\ reqs[r].invoked
         /\ reqs[r].target = "foreign")
        => reqs[r].status \in {403, 500}

\* C10: in both chat handlers an error that reaches the catch block is
\* answered 402 for insufficient_quota, 401 for invalid_api_key and 500
\* for anything else.
C10_ErrorMapping ==
    \A r \in Reqs :
        (/\ reqs[r].pc = "done"
         /\ reqs[r].route \in ChatRoutes
         /\ reqs[r].err # "")
        => reqs[r].status =
              IF reqs[r].err = "insufficient_quota" THEN 402
              ELSE IF reqs[r].err = "invalid_api_key" THEN 401
              ELSE 500

\* C11: on both chat endpoints every completion call carries the model
\* 'gpt-4o-mini', the fixed systemInstructions as the system message and,
\* as the user message, the request's message with script blocks and tags
\* stripped and trimmed; the unsanitized message is not forwarded.
C11_CompletionRequestFixed ==
    \A r \in Reqs :
        reqs[r].completion.called =>
            /\ reqs[r].completion.model = "gpt-4o-mini"
            /\ reqs[r].completion.system = "systemInstructions"
            /\ reqs[r].message.t = "string"
            /\ reqs[r].completion.user = Sanitize(reqs[r].message.s)

PublicCounted(r) ==
    reqs[r].route = "publicGpt" /\ reqs[r].limit.key # NoKey

C13_PublicPerAddress ==
    /\ \A r \in Reqs :
        LET l == reqs[r].limit IN
        PublicCounted(r) =>
            /\ l.by = "" => l.pkey = IpKey(l.ip)
            /\ reqs[r].status = 429 <=> l.pcount > PublicMax
            /\ reqs[r].invoked => l.pcount <= PublicMax
    /\ \A e \in publicHits : e.cur + e.prev <= PublicMax

\* C13 amended: as above, but at most 10 requests of an address reach
\* handlePublicGpt in each window of publicRateLimit, the 15 minutes that
\* start with the first request counted for the address after its previous
\* window ended.
C13_PublicPerWindow ==
    /\ \A r \in Reqs :
        LET l == reqs[r].limit IN
        PublicCounted(r) =>
            /\ l.by = "" => l.pkey = IpKey(l.ip)
            /\ reqs[r].status = 429 <=> l.pcount > PublicMax
            /\ reqs[r].invoked => l.pcount <= PublicMax
    /\ \A e \in publicHits : e.win <= PublicMax

\* the eleventh request of an address in its window is rejected by
\* publicRateLimit while another address has requests counted of its own
C13_Witness ==
    \E r \in Reqs :
        LET l == reqs[r].limit IN
        /\ reqs[r].route = "publicGpt"
        /\ l.by = "publicRateLimit"
        /\ l.pcount = PublicMax + 1
        /\ ~reqs[r].invoked
        /\ \E e \in publicHits :
              e.key = IpKey(l.ip) /\ e.win = PublicMax
        /\ \E e \in publicHits :
              e.key # IpKey(l.ip) /\ e.win >= 1 /\ e.win < PublicMax

\* C14: every message stored through POST /api/conversations/:id/messages
\* has the role 'user' or 'assistant'; a request with any other role stores
\* nothing.  (The messages the store starts with have the role 'user', so a
\* message with another role can only have come in through the route.)
C14_StoredRoles == \A m \in messages : m.role \in {"user", "assistant"}

\* C15: once a message is stored no operation changes its conversation_id,
\* role or content; a message leaves the store only in the step of
\* deleteConversation that deletes the messages of its conversation; and a
\* step of createConversation, getUserConversations,
\* updateConversationTitle, getConversationMessages or addMessage leaves
\* every stored message as it was.
C15_MessagesFrame ==
    [][/\ \A m \in messages : \A n \in messages' : n.id = m.id => n = m
       /\ \A m \in messages \ messages' :
            \E r \in Reqs : /\ reqs[r].pc = "next"
                            /\ reqs[r].route = "deleteConversation"
                            /\ reqs'[r].pc = "deleteConversation"
                            /\ reqs'[r].convId = m.conversation_id
       /\ \A r \in Reqs :
            /\ reqs'[r] # reqs[r]
            /\ reqs[r].route \in {"createConversation", "getUserConversations",
                                  "updateConversationTitle",
                                  "getConversationMessages", "addMessage"}
            => messages \subseteq messages']_vars

\* a deletion has taken the message of conversation 1 out of the store and
\* is not finished, while a message added to conversation 2 and a
\* conversation created since are there
C15_Witness ==
    /\ \E r \in Reqs : reqs[r].pc = "deleteConversation" /\ reqs[r].convId = 1
    /\ \A m \in messages : m.conversation_id # 1
    /\ \E m \in messages : m.conversation_id = 2
    /\ \E c \in conversations : c.id = MaxConvId

\* C16: in every reachable state of the store every message references a
\* conversation that exists, however the steps of addMessage (ownership
\* check, then insert) and of deleteConversation (delete the messages, then
\* the conversation) on the same conversation interleave.
C16_NoOrphanMessage ==
    \A m \in messages : \E c \in conversations : c.id = m.conversation_id

\* C17: a deleteConversation that fails, answered with an error status, has
\* left the store as it was: it has deleted none of the conversation's
\* messages.  (A failed deleteConversation never deletes the conversation
\* itself: its last store call is the one that failed.)
C17_FailedDeleteChangesNothing ==
    \A r \in Reqs :
        /\ reqs[r].pc = "done"
        /\ reqs[r].route = "deleteConversation"
        /\ reqs[r].status >= 400
        => reqs[r].lost = {}

\* C18: in handleMainGpt and handlePublicGpt the provider is called only in
\* the order validation, moderation, completion: for a request that the
\* handler's validation rejects neither the moderation nor the completion
\* call is made, and the completion call of a request is made only after
\* the moderation call of that request has returned or thrown.
ModerationMade(q) ==
    \/ q.pc \in {"handleMainGpt_moderation", "handlePublicGpt_moderation"}
    \/ q.moderation # "none"

CompletionMade(q) ==
    \/ q.pc \in {"handleMainGpt_completion", "handlePublicGpt_completion"}
    \/ q.completion.called

ValidationRejects(q) ==
    \* publicGpt.js, the validation of the request body: one of its three tests
    \* answers 400
    LET PublicRejects(b) ==
            \/ ~Truthy(b.message) \/ b.message.t # "string"
            \/ Len(Trim(b.message.s)) = 0
            \/ JsLess(b.maxTokens, MinTokens) \/ JsGreater(b.maxTokens, MaxTokens)
    IN
    \* mainGpt.js, the validation of the request body: one of its four tests
    \* answers 400
    LET MainRejects(b) ==
            \/ ~Truthy(b.message)
            \/ LengthOver(b.message, MaxMessageLength)
            \/ JsLess(b.maxTokens, MinTokens) \/ JsGreater(b.maxTokens, MaxTokens)
            \/ JsLess(b.temperature, MinTemperature)
            \/ JsGreater(b.temperature, MaxTemperature)
    IN
    IF q.route = "gpt" THEN MainRejects(q) ELSE PublicRejects(q)

C18_ProviderCallOrder ==
    \A r \in Reqs :
        reqs[r].route \in ChatRoutes /\ reqs[r].invoked =>
            /\ ValidationRejects(reqs[r]) =>
                   ~ModerationMade(reqs[r]) /\ ~CompletionMade(reqs[r])
            /\ CompletionMade(reqs[r]) => reqs[r].moderation # "none"

\* the completion call of a request on /api/gpt is in flight after its
\* moderation call threw
C18_Witness ==
    /\ reqs[1].route = "gpt"
    /\ reqs[1].pc = "handleMainGpt_completion"
    /\ reqs[1].moderation = "threw"
    /\ ~ValidationRejects(reqs[1])

\* C19: neither chat handler calls the moderation or the completion
\* endpoint with an empty user message: a request whose message is empty
\* once tags are stripped and it is trimmed (only whitespace, or only HTML
\* tags) is answered 400 and no provider call is made for it.
C19_EmptyMessageRejected ==
    LET EmptyMessage(q) == q.message.t = "string" /\ Len(Sanitize(q.message.s)) = 0
    IN
    \A r \in Reqs :
        reqs[r].route \in ChatRoutes /\ reqs[r].invoked
                                     /\ EmptyMessage(reqs[r]) =>
            /\ ~ModerationMade(reqs[r])
            /\ ~CompletionMade(reqs[r])
            /\ reqs[r].pc = "done" => reqs[r].status = 400

\* C20: every run of a request pipeline (authenticateUser followed by
\* handleMainGpt or a conversation or message handler; handlePublicGpt;
\* handleResendConfirmation; testModeration) sends exactly one response on
\* every path, provider and store exceptions included: a pipeline that has
\* ended has sent one response, one still running has sent none, and
\* authenticateUser never both sends a response and calls next().
C20_ExactlyOneResponse ==
    \A r \in Reqs :
        LET q == reqs[r] IN
        /\ q.sent <= 1
        /\ q.pc = "done" => q.sent = 1
        /\ q.pc \notin {"idle", "done"} => q.sent = 0
        /\ q.nexts <= 1
        /\ q.nexts = 1 /\ ~q.invoked => q.sent = 0
        /\ q.invoked /\ q.route \in AuthRoutes => q.nexts = 1

\* a completion call that threw on /api/gpt, after authenticateUser called
\* next(): the catch block has sent the one response
C20_Witness ==
    /\ reqs[1].pc = "done"
    /\ reqs[1].route = "gpt"
    /\ reqs[1].completion.called
    /\ reqs[1].err = "server_error"
    /\ reqs[1].nexts = 1
    /\ reqs[1].sent = 1

\* C21: two requests of the same client to routes under /api/ within one
\* window of the limiter are counted under the same rate-limit key, also
\* when the client presents no session cookie, so that the cap of 50
\* applies to the client's requests together.
C21_SameClientSameKey ==
    LET Counted(r) == reqs[r].limit.key # NoKey
    IN
    \A r1, r2 \in Reqs :
        /\ Counted(r1) /\ Counted(r2)
        /\ reqs[r1].limit.ip = reqs[r2].limit.ip
        => reqs[r1].limit.key = reqs[r2].limit.key

\* C22: every route whose handler calls a provider (POST /api/gpt,
\* POST /api/public/gpt, POST /api/auth/resend-confirmation,
\* POST /test-moderation) is behind at least one rate limiter: a request
\* whose handler runs has been counted by a limiter, and a request counted
\* above a limiter's cap is rejected with 429 and its handler does not run.
C22_ProviderRoutesLimited ==
    \A r \in Reqs :
        LET q == reqs[r] IN
        q.route \in ProviderRoutes =>
            /\ q.invoked => q.limit.key # NoKey \/ q.limit.pkey # NoKey
            /\ q.limit.count > LimiterMax \/ q.limit.pcount > PublicMax
                   => q.status = 429 /\ ~q.invoked

\* C23: handleCleanupUnconfirmed never deletes a user whose email is
\* confirmed: a user who leaves the identity provider's list was unconfirmed
\* at the moment of the deletion, also when the user confirmed between
\* listUsers and deleteUser; and a clean-up answered 400 (a confirmed user
\* with the address exists) has deleted nothing.
C23_OnlyUnconfirmedDeleted ==
    [][/\ \A a \in accounts :
            (\A b \in accounts' : b.id # a.id) => ~a.confirmed
       /\ \A r \in Reqs :
            /\ reqs'[r].pc = "done"
            /\ reqs'[r].route = "cleanupUnconfirmed"
            /\ reqs'[r].status = 400
            => reqs'[r].lost = {}]_vars

\* C24: in the App component at most one chat turn is in flight at any
\* time: a sendMessage call begins a turn only when the input it reads is
\* not blank, isLoading is false and a conversation is selected, and never
\* while the turn of an earlier call has not reached its end
C24_OneTurnInFlight ==
    [][component = "App" =>
          LET TurnsInFlight(cs) == {t \in Calls : InFlight(cs[t])}
          IN
          /\ Cardinality(TurnsInFlight(calls')) <= 1
          /\ \A t \in Calls :
                ~InFlight(calls[t]) /\ InFlight(calls'[t])
                    => /\ Trim(rendered.inputMessage) # <<>>
                       /\ ~rendered.isLoading /\ ~state.isLoading
                       /\ rendered.currentConversation # NoConversation
                       /\ TurnsInFlight(calls) = {}]_vars

\* a turn waits for the answer of /api/gpt while the user has selected a
\* conversation whose messages are being loaded
C24_Witness ==
    /\ component = "App"
    /\ \E t, u \in Calls : calls[t].pc = "post" /\ calls[u].pc = "load"

\* C25: every sendMessage that sets isLoading to true is followed by
\* isLoading becoming false, whichever of its calls fail, in App and in
\* PublicChat, if every call it awaits settles
C25_LoadingEnds == state.isLoading ~> ~state.isLoading

\* a turn of App has ended in its catch block; one of PublicChat has
C25_Witness ==
    /\ ~state.isLoading
    /\ \A t \in Calls : ~InFlight(calls[t])
    /\ \E i \in 1..Len(state.messages) :
          state.messages[i] = ErrorMessage("failed")
    /\ component = "App"

====
